---- MODULE Spec2Model ----
(***************************************************************************)
(* Model of the SQL query construction of src/query_builder.py.            *)
(*                                                                         *)
(* A Python str is a sequence of atoms; the atoms of data strings are      *)
(* single characters, the atoms of the text the builder emits itself are   *)
(* its string constants ("WHERE ", " AND ", ...).  A JSON value is a       *)
(* record [t, n, s, l]: t is its Python type ("absent" when the key is     *)
(* not in the dict), n its number (1/0 for a bool), s its text, l its      *)
(* items.  A dict with keys that need not be strings (a parsed row) is a    *)
(* sequence of [k, v] pairs in insertion order.  The source is read as     *)
(* Python 3.12+, where a backslash inside    *)
(* an f-string expression (query_builder.py lines 86, 94, 95, 102) is      *)
(* accepted.                                                               *)
(***************************************************************************)
EXTENDS Integers, Sequences, FiniteSets, TLC

VARIABLES
    config,   \* the QueryConfig handed to QueryBuilder
    pc,       \* "new", then "ready" or "rejected" (the constructor raised),
              \* then "built" or "failed" (build_select_query raised)
    sql,      \* the query string build_select_query returned
    err,      \* the exception that reached the caller, "" when none
    builds,   \* the number of calls of build_select_query so far
    csv_data_string,  \* the text handed to process_csv_output_to_dict
    results,  \* the list process_csv_output_to_dict returned
    parsed,   \* process_csv_output_to_dict has returned
    stage,    \* the position of main(): "idle" when main is not running
    db_connection,    \* main's db_connection is a DatabaseConnection, not None
    closes,   \* the number of calls of db_connection.close()
    raised,   \* the exception in flight in main, "" when none
    ran       \* the stages main has run, in order

builderVars == <<config, pc, sql, err, builds>>
parserVars == <<csv_data_string, results, parsed>>
mainVars == <<stage, db_connection, closes, raised, ran>>
vars == <<config, pc, sql, err, builds, csv_data_string, results, parsed,
          stage, db_connection, closes, raised, ran>>

\* ------------------------------------------------------------- bounds
MaxCols == 2
MaxFilters == 2
MaxOrder == 2
MaxLimit == 11
MaxStrLen == 2
MaxItems == 3
MaxBuilds == 2
MaxRows == 2

\* ------------------------------------------------------------- values
VAbsent == [t |-> "absent", n |-> 0, s |-> <<>>, l |-> <<>>]
VNone == [t |-> "none", n |-> 0, s |-> <<>>, l |-> <<>>]
VBool(b) == [t |-> "bool", n |-> IF b THEN 1 ELSE 0, s |-> <<>>, l |-> <<>>]
VInt(i) == [t |-> "int", n |-> i, s |-> <<>>, l |-> <<>>]
VFloat(i) == [t |-> "float", n |-> i, s |-> <<>>, l |-> <<>>]
VStr(x) == [t |-> "str", n |-> 0, s |-> x, l |-> <<>>]
VList(x) == [t |-> "list", n |-> 0, s |-> <<>>, l |-> x]

\* dict.get(key): a missing key reads as None
Get(v) == IF v.t = "absent" THEN VNone ELSE v

\* Python truthiness of a value (`not x`)
Truthy(v) ==
    CASE v.t = "absent" -> FALSE
      [] v.t = "none" -> FALSE
      [] v.t = "bool" -> v.n = 1
      [] v.t = "int" -> v.n # 0
      [] v.t = "float" -> v.n # 0
      [] v.t = "str" -> v.s # <<>>
      [] v.t = "list" -> v.l # <<>>

\* ------------------------------------------------------------- str helpers
RECURSIVE Join(_, _)
\* sep.join(parts)
Join(parts, sep) ==
    IF parts = <<>> THEN <<>>
    ELSE IF Len(parts) = 1 THEN parts[1]
    ELSE parts[1] \o sep \o Join(Tail(parts), sep)

Digit(d) ==
    CASE d = 0 -> "0" [] d = 1 -> "1" [] d = 2 -> "2" [] d = 3 -> "3"
      [] d = 4 -> "4" [] d = 5 -> "5" [] d = 6 -> "6" [] d = 7 -> "7"
      [] d = 8 -> "8" [] d = 9 -> "9"

RECURSIVE NatToStr(_)
NatToStr(n) == IF n < 10 THEN <<Digit(n)>> ELSE NatToStr(n \div 10) \o <<Digit(n % 10)>>

\* str(int)
IntToStr(i) == IF i < 0 THEN <<"-">> \o NatToStr(0 - i) ELSE NatToStr(i)

\* str(value) for a value that is not a list
PyStr(v) ==
    CASE v.t = "none" -> <<"None">>
      [] v.t = "bool" -> IF v.n = 1 THEN <<"True">> ELSE <<"False">>
      [] v.t = "int" -> IntToStr(v.n)
      [] v.t = "float" -> IntToStr(v.n) \o <<".", "0">>
      [] v.t = "str" -> v.s

UpperChar(c) ==
    CASE c = "a" -> "A" [] c = "b" -> "B" [] c = "c" -> "C" [] c = "d" -> "D"
      [] c = "e" -> "E" [] c = "i" -> "I" [] c = "k" -> "K" [] c = "l" -> "L"
      [] c = "n" -> "N" [] c = "o" -> "O" [] c = "s" -> "S" [] c = "t" -> "T"
      [] c = "u" -> "U" [] c = "w" -> "W" [] c = "x" -> "X"
      [] OTHER -> c

\* str.upper()
Upper(x) == [i \in 1..Len(x) |-> UpperChar(x[i])]

\* ------------------------------------------------------------- QueryBuilder
\* _validate_config without the `not self.config["table"]` test
ValidateConfigKeyOnly(cfg) ==
    IF cfg.table.t = "absent" THEN "ValueError"
    ELSE IF cfg.columns.t = "absent" \/ cfg.columns.t # "list" THEN "ValueError"
    ELSE ""

\* _validate_config: the exception it raises, "" when it returns
ValidateConfig(cfg) ==
    IF cfg.table.t = "absent" \/ ~Truthy(cfg.table) THEN "ValueError"
    ELSE IF cfg.columns.t = "absent" \/ cfg.columns.t # "list" THEN "ValueError"
    ELSE ""

\* _sanitize_identifier: warns about characters outside [A-Za-z0-9_], returns its argument
SanitizeIdentifier(identifier) == identifier

\* _build_select_clause without the `if not columns` test
BuildSelectClauseNoStar(cfg) ==
    LET columns == Get(cfg.columns)
    IN Join([i \in 1..Len(columns.l) |-> SanitizeIdentifier(columns.l[i].s)], <<", ">>)

\* _build_select_clause
BuildSelectClause(cfg) ==
    LET columns == Get(cfg.columns)
    IN IF ~Truthy(columns) THEN <<"*">>
       ELSE Join([i \in 1..Len(columns.l) |-> SanitizeIdentifier(columns.l[i].s)], <<", ">>)

\* _build_from_clause
BuildFromClause(cfg) == <<"FROM ">> \o SanitizeIdentifier(cfg.table.s)

\* a replace that leaves the quotes as they are
ReplaceNothing(x) == x

RECURSIVE Replace(_)
\* s.replace("'", "''")
Replace(x) ==
    IF x = <<>> THEN <<>>
    ELSE (IF Head(x) = "'" THEN <<"'", "'">> ELSE <<Head(x)>>) \o Replace(Tail(x))

\* the inlined literal of one value: a str is quoted and escaped, anything else is str(value)
FormatValue(v) ==
    IF v.t = "str" THEN <<"'">> \o Replace(v.s) \o <<"'">> ELSE PyStr(v)

\* the IN branch without the `not value` test
InConditionAnyList(column, value) ==
    IF value.t # "list"
    THEN [err |-> "", skip |-> TRUE, cond |-> <<>>]
    ELSE [err |-> "", skip |-> FALSE,
          cond |-> column \o <<" IN (">>
                   \o Join([i \in 1..Len(value.l) |-> FormatValue(value.l[i])], <<", ">>)
                   \o <<")">>]

\* the IN branch of the loop body of _build_where_clause
InCondition(column, value) ==
    IF value.t # "list" \/ ~Truthy(value)
    THEN [err |-> "", skip |-> TRUE, cond |-> <<>>]
    ELSE [err |-> "", skip |-> FALSE,
          cond |-> column \o <<" IN (">>
                   \o Join([i \in 1..Len(value.l) |-> FormatValue(value.l[i])], <<", ">>)
                   \o <<")">>]

\* the BETWEEN branch testing `len(value) < 2` in place of `len(value) != 2`
BetweenConditionAtLeastTwo(column, value) ==
    IF value.t # "list" \/ Len(value.l) < 2
    THEN [err |-> "", skip |-> TRUE, cond |-> <<>>]
    ELSE [err |-> "", skip |-> FALSE,
          cond |-> column \o <<" BETWEEN ">> \o FormatValue(value.l[1])
                   \o <<" AND ">> \o FormatValue(value.l[2])]

\* the BETWEEN branch of the loop body of _build_where_clause
BetweenCondition(column, value) ==
    IF value.t # "list" \/ Len(value.l) # 2
    THEN [err |-> "", skip |-> TRUE, cond |-> <<>>]
    ELSE [err |-> "", skip |-> FALSE,
          cond |-> column \o <<" BETWEEN ">> \o FormatValue(value.l[1])
                   \o <<" AND ">> \o FormatValue(value.l[2])]

\* the loop body skipping a node that has no `column` or no `operator` key
FilterConditionLenient(f) ==
    IF f.column.t = "absent" \/ f.operator.t = "absent"
    THEN [err |-> "", skip |-> TRUE, cond |-> <<>>]
    ELSE
      LET column == SanitizeIdentifier(f.column.s)
          operator == Upper(f.operator.s)
          value == Get(f.value)
      IN IF operator = <<"I", "N">> THEN InCondition(column, value)
         ELSE IF operator = <<"B", "E", "T", "W", "E", "E", "N">> THEN BetweenCondition(column, value)
         ELSE IF operator \in {<<"I", "S", " ", "N", "U", "L", "L">>,
                               <<"I", "S", " ", "N", "O", "T", " ", "N", "U", "L", "L">>}
         THEN [err |-> "", skip |-> FALSE, cond |-> column \o <<" ">> \o operator]
         ELSE [err |-> "", skip |-> FALSE,
               cond |-> column \o <<" ">> \o operator \o <<" ">> \o FormatValue(value)]

\* one pass of the loop body of _build_where_clause over filter f:
\* err is the exception raised, skip is TRUE on `continue`, cond the appended condition
FilterCondition(f) ==
    IF f.column.t = "absent" \/ f.operator.t = "absent"
    THEN [err |-> "KeyError", skip |-> FALSE, cond |-> <<>>]
    ELSE
      LET column == SanitizeIdentifier(f.column.s)
          operator == Upper(f.operator.s)
          value == Get(f.value)
      IN IF operator = <<"I", "N">> THEN InCondition(column, value)
         ELSE IF operator = <<"B", "E", "T", "W", "E", "E", "N">> THEN BetweenCondition(column, value)
         ELSE IF operator \in {<<"I", "S", " ", "N", "U", "L", "L">>,
                               <<"I", "S", " ", "N", "O", "T", " ", "N", "U", "L", "L">>}
         THEN [err |-> "", skip |-> FALSE, cond |-> column \o <<" ">> \o operator]
         ELSE [err |-> "", skip |-> FALSE,
               cond |-> column \o <<" ">> \o operator \o <<" ">> \o FormatValue(value)]

RECURSIVE WhereLoop(_, _)
\* the `for f in filters` loop of _build_where_clause, from the conditions collected so far
WhereLoop(filters, conditions) ==
    IF filters = <<>> THEN [err |-> "", conditions |-> conditions]
    ELSE LET r == FilterCondition(Head(filters))
         IN IF r.err # "" THEN [err |-> r.err, conditions |-> <<>>]
            ELSE WhereLoop(Tail(filters),
                           IF r.skip THEN conditions ELSE Append(conditions, r.cond))

\* _build_where_clause
BuildWhereClause(cfg) ==
    LET filters == IF cfg.filters.t = "absent" THEN <<>> ELSE cfg.filters.l
        r == WhereLoop(filters, <<>>)
    IN IF r.err # "" THEN [err |-> r.err, clause |-> <<>>]
       ELSE IF r.conditions = <<>> THEN [err |-> "", clause |-> <<>>]
       ELSE [err |-> "", clause |-> <<"WHERE ">> \o Join(r.conditions, <<" AND ">>)]

\* one pass of the loop body of _build_order_by_clause
OrderItem(item) ==
    IF item.column.t = "absent" THEN [err |-> "KeyError", order |-> <<>>]
    ELSE IF item.direction.t \notin {"absent", "str"} THEN [err |-> "AttributeError", order |-> <<>>]
    ELSE LET column == SanitizeIdentifier(item.column.s)
             given == IF item.direction.t = "absent" THEN <<"A", "S", "C">>
                      ELSE item.direction.s
             direction == IF Upper(given) \in {<<"A", "S", "C">>, <<"D", "E", "S", "C">>}
                          THEN Upper(given) ELSE <<"A", "S", "C">>
         IN [err |-> "", order |-> column \o <<" ">> \o direction]

RECURSIVE OrderLoop(_, _)
OrderLoop(items, orders) ==
    IF items = <<>> THEN [err |-> "", orders |-> orders]
    ELSE LET r == OrderItem(Head(items))
         IN IF r.err # "" THEN [err |-> r.err, orders |-> <<>>]
            ELSE OrderLoop(Tail(items), Append(orders, r.order))

\* _build_order_by_clause
BuildOrderByClause(cfg) ==
    LET order_by_config == IF cfg.order_by.t = "absent" THEN <<>> ELSE cfg.order_by.l
        r == OrderLoop(order_by_config, <<>>)
    IN IF order_by_config = <<>> THEN [err |-> "", clause |-> <<>>]
       ELSE IF r.err # "" THEN [err |-> r.err, clause |-> <<>>]
       ELSE [err |-> "", clause |-> <<"ORDER BY ">> \o Join(r.orders, <<", ">>)]

\* isinstance(v, int): bool is a subclass of int
IsInstanceInt(v) == v.t \in {"int", "bool"}

\* _build_limit_clause
BuildLimitClause(cfg) ==
    LET limit == Get(cfg.limit)
    IN IF limit.t = "none" \/ ~IsInstanceInt(limit) \/ limit.n <= 0 THEN <<>>
       ELSE <<"FETCH NEXT ">> \o PyStr(limit) \o <<" ROWS ONLY">>

\* build_select_query appending the WHERE clause without the `if where_clause` test
BuildSelectQueryResultAlwaysWhere(cfg) ==
    LET select_clause == BuildSelectClause(cfg)
        from_clause == BuildFromClause(cfg)
        where == BuildWhereClause(cfg)
        order_by == BuildOrderByClause(cfg)
        limit_clause == BuildLimitClause(cfg)
        query_parts == <<<<"SELECT ">> \o select_clause, from_clause>>
                       \o <<where.clause>>
                       \o (IF order_by.clause # <<>> THEN <<order_by.clause>> ELSE <<>>)
                       \o (IF limit_clause # <<>> THEN <<limit_clause>> ELSE <<>>)
    IN IF where.err # "" THEN [err |-> where.err, query |-> <<>>]
       ELSE IF order_by.err # "" THEN [err |-> order_by.err, query |-> <<>>]
       ELSE [err |-> "", query |-> Join(query_parts, <<"\n">>)]

\* build_select_query: the exception it raises ("" when it returns) and the query it returns
BuildSelectQueryResult(cfg) ==
    LET select_clause == BuildSelectClause(cfg)
        from_clause == BuildFromClause(cfg)
        where == BuildWhereClause(cfg)
        order_by == BuildOrderByClause(cfg)
        limit_clause == BuildLimitClause(cfg)
        query_parts == <<<<"SELECT ">> \o select_clause, from_clause>>
                       \o (IF where.clause # <<>> THEN <<where.clause>> ELSE <<>>)
                       \o (IF order_by.clause # <<>> THEN <<order_by.clause>> ELSE <<>>)
                       \o (IF limit_clause # <<>> THEN <<limit_clause>> ELSE <<>>)
    IN IF where.err # "" THEN [err |-> where.err, query |-> <<>>]
       ELSE IF order_by.err # "" THEN [err |-> order_by.err, query |-> <<>>]
       ELSE [err |-> "", query |-> Join(query_parts, <<"\n">>)]

\* ------------------------------------------------------------- DataProcessor
\* the end-of-line mark csv.reader feeds its parser after the characters of a line
EOL == "EOL"

\* the parser of csv.reader at the start of a record
ReaderStart == [state |-> "START_RECORD", field |-> <<>>, fields |-> <<>>, error |-> FALSE]

\* parse_save_field
SaveField(p) == [p EXCEPT !.fields = Append(@, p.field), !.field = <<>>]

\* parse_process_char of csv.reader in the default (excel, not strict) dialect
\* that csv.DictReader(csvfile) uses
ProcessChar(p, c) ==
    LET newline == c \in {"\n", "\r", EOL}
        after == IF c = EOL THEN "START_RECORD" ELSE "EAT_CRNL"
        startField ==
            IF newline THEN [SaveField(p) EXCEPT !.state = after]
            ELSE IF c = "\"" THEN [p EXCEPT !.state = "IN_QUOTED_FIELD"]
            ELSE IF c = "," THEN [SaveField(p) EXCEPT !.state = "START_FIELD"]
            ELSE [p EXCEPT !.field = Append(@, c), !.state = "IN_FIELD"]
    IN CASE p.state = "START_RECORD" ->
              IF c = EOL THEN p
              ELSE IF c \in {"\n", "\r"} THEN [p EXCEPT !.state = "EAT_CRNL"]
              ELSE startField
         [] p.state = "START_FIELD" -> startField
         [] p.state = "IN_FIELD" ->
              IF newline THEN [SaveField(p) EXCEPT !.state = after]
              ELSE IF c = "," THEN [SaveField(p) EXCEPT !.state = "START_FIELD"]
              ELSE [p EXCEPT !.field = Append(@, c)]
         [] p.state = "IN_QUOTED_FIELD" ->
              IF c = EOL THEN p
              ELSE IF c = "\"" THEN [p EXCEPT !.state = "QUOTE_IN_QUOTED_FIELD"]
              ELSE [p EXCEPT !.field = Append(@, c)]
         [] p.state = "QUOTE_IN_QUOTED_FIELD" ->
              IF c = "\"" THEN [p EXCEPT !.field = Append(@, c), !.state = "IN_QUOTED_FIELD"]
              ELSE IF c = "," THEN [SaveField(p) EXCEPT !.state = "START_FIELD"]
              ELSE IF newline THEN [SaveField(p) EXCEPT !.state = after]
              ELSE [p EXCEPT !.field = Append(@, c), !.state = "IN_FIELD"]
         [] p.state = "EAT_CRNL" ->
              IF c \in {"\n", "\r"} THEN p
              ELSE IF c = EOL THEN [p EXCEPT !.state = "START_RECORD"]
              ELSE [p EXCEPT !.error = TRUE]

RECURSIVE ReadRows(_, _, _)
\* the rows csv.reader yields over io.StringIO(x), which ends a line at "\n" or
\* at the end of the text; error is TRUE when it raises csv.Error, rows are then
\* the rows yielded before
ReadRows(x, p, rows) ==
    IF x = <<>>
    THEN [error |-> FALSE,
          rows |-> IF p.state = "IN_QUOTED_FIELD" \/ p.field # <<>>
                   THEN Append(rows, SaveField(p).fields) ELSE rows]
    ELSE LET p1 == ProcessChar(p, Head(x))
             lineEnds == Head(x) = "\n" \/ Tail(x) = <<>>
             p2 == IF lineEnds /\ ~p1.error THEN ProcessChar(p1, EOL) ELSE p1
         IN IF p2.error THEN [error |-> TRUE, rows |-> rows]
            ELSE IF lineEnds /\ p2.state = "START_RECORD"
            THEN ReadRows(Tail(x), ReaderStart, Append(rows, p2.fields))
            ELSE ReadRows(Tail(x), p2, rows)

\* d[k] = v on a dict kept as a sequence of [k, v] pairs
DictSet(d, k, v) ==
    IF \E i \in 1..Len(d) : d[i].k = k
    THEN [i \in 1..Len(d) |-> IF d[i].k = k THEN [k |-> k, v |-> v] ELSE d[i]]
    ELSE Append(d, [k |-> k, v |-> v])

RECURSIVE ZipDict(_, _, _)
\* dict(zip(fieldnames, row)) added to d
ZipDict(fieldnames, row, d) ==
    IF fieldnames = <<>> \/ row = <<>> THEN d
    ELSE ZipDict(Tail(fieldnames), Tail(row), DictSet(d, VStr(Head(fieldnames)), VStr(Head(row))))

RECURSIVE RestDict(_, _)
\* d[key] = restval (None) for the keys of fieldnames
RestDict(fieldnames, d) ==
    IF fieldnames = <<>> THEN d
    ELSE RestDict(Tail(fieldnames), DictSet(d, VStr(Head(fieldnames)), VNone))

\* csv.DictReader.__next__ on one row that is not empty: fields beyond the header
\* go to the key None (restkey) as a list, missing fields are None (restval)
RowDict(fieldnames, row) ==
    LET d == ZipDict(fieldnames, row, <<>>)
        lf == Len(fieldnames)
        lr == Len(row)
    IN IF lf < lr
       THEN DictSet(d, VNone, VList([i \in 1..(lr - lf) |-> VStr(row[lf + i])]))
       ELSE IF lf > lr THEN RestDict(SubSeq(fieldnames, lr + 1, lf), d)
       ELSE d

\* the dicts csv.DictReader yields for the rows of the reader: the first row is
\* the header, an empty row (a blank line) after it is passed over
RowDicts(rows) ==
    IF rows = <<>> THEN <<>>
    ELSE LET data == SelectSeq(Tail(rows), LAMBDA row : row # <<>>)
         IN [i \in 1..Len(data) |-> RowDict(Head(rows), data[i])]

\* process_csv_output_to_dict returning the rows gathered so far when the reader raises
ProcessCsvOutputToDictPartial(text) ==
    IF text = <<>> THEN <<>>
    ELSE LET r == ReadRows(text, ReaderStart, <<>>)
         IN RowDicts(r.rows)

\* process_csv_output_to_dict
ProcessCsvOutputToDict(text) ==
    IF text = <<>> THEN <<>>
    ELSE LET r == ReadRows(text, ReaderStart, <<>>)
         IN IF r.error THEN <<>> ELSE RowDicts(r.rows)

\* ------------------------------------------------------------- inputs
\* all sequences over S of length at most n
SeqsUpTo(S, n) == UNION {[1..k -> S] : k \in 0..n}

NoList == [t |-> "absent", l |-> <<>>]
NodeList(x) == [t |-> "list", l |-> x]

\* a Comparison node {column, operator, value}
Comparison(c, o, v) ==
    [column |-> c, operator |-> o, value |-> v, logical_operator |-> VAbsent, conditions |-> NoList]
\* a Group node {logical_operator, conditions}
Group(o, cs) ==
    [column |-> VAbsent, operator |-> VAbsent, value |-> VAbsent,
     logical_operator |-> VStr(o), conditions |-> NodeList(cs)]
\* an OrderSpec {column, direction}
OrderSpec(c, d) == [column |-> c, direction |-> d]

ColC == VStr(<<"C">>)
ColD == VStr(<<"D">>)
OpEq == VStr(<<"=">>)
OpGe == VStr(<<">", "=">>)
OpLike == VStr(<<"l", "i", "k", "e">>)
OpIn == VStr(<<"i", "n">>)
OpBetween == VStr(<<"B", "E", "T", "W", "E", "E", "N">>)
OpIsNull == VStr(<<"i", "s", " ", "n", "u", "l", "l">>)
OpIsNotNull == VStr(<<"I", "S", " ", "N", "O", "T", " ", "N", "U", "L", "L">>)

Strings == SeqsUpTo({"a", "'"}, MaxStrLen)
Scalars == {VNone, VBool(TRUE), VBool(FALSE), VInt(7), VInt(-12)} \cup {VStr(x) : x \in Strings}
Items == {VNone, VInt(7), VStr(<<"a", "'">>)}
Lists == {VList(x) : x \in SeqsUpTo(Items, MaxItems)}

NodeA == Comparison(ColD, OpGe, VInt(8000))
NodeB == Comparison(ColD, OpEq, VStr(<<"b">>))
NodeC == Comparison(ColD, OpIsNotNull, VAbsent)
NodeSkipped == Comparison(ColD, OpIn, VList(<<>>))

\* the filter nodes under study
FilterNodes ==
    {Comparison(ColC, o, v) : o \in {OpEq, OpLike}, v \in Scalars \cup {VAbsent}}
    \cup {Comparison(ColC, o, v) : o \in {OpIn, OpBetween},
                                   v \in Lists \cup {VAbsent, VInt(7), VStr(<<"a">>)}}
    \cup {Comparison(ColC, OpIsNull, v) : v \in {VAbsent, VInt(7)}}
    \cup {Comparison(VAbsent, OpEq, VInt(7)), Comparison(ColC, VAbsent, VInt(7)),
          Comparison(VAbsent, VAbsent, VAbsent)}
    \cup {Group(<<"O", "R">>, cs) : cs \in {<<>>, <<NodeB, NodeC>>}}

\* the nodes that accompany a node under study in a filter list
Companions == {NodeA, NodeSkipped}

\* filter lists of at most MaxFilters nodes, at most one of them not a companion
FilterLists ==
    LET base == SeqsUpTo(Companions, MaxFilters)
    IN base \cup {[i \in 1..Len(x[1]) |-> IF i = x[2] THEN x[3] ELSE x[1][i]] :
                    x \in {y \in base \X (1..MaxFilters) \X FilterNodes : y[2] <= Len(y[1])}}

ColumnNames == {VStr(<<"A">>), VStr(<<"I", "D">>)}
Tables == {VAbsent, VNone, VStr(<<>>), VStr(<<"T">>)}
ColumnsValues == {VAbsent, VNone, VStr(<<"A">>)} \cup {VList(x) : x \in SeqsUpTo(ColumnNames, MaxCols)}
OrderSpecs == {OrderSpec(VStr(<<"A">>), VStr(<<"d", "e", "s", "c">>)), OrderSpec(VStr(<<"I", "D">>), VAbsent)}
OrderBys == {NoList} \cup {NodeList(x) : x \in SeqsUpTo(OrderSpecs, MaxOrder)}
Limits == {VAbsent, VNone, VBool(TRUE), VBool(FALSE), VStr(<<"5">>), VFloat(5)}
          \cup {VInt(i) : i \in {-1, 0, 5, MaxLimit}}
\* the sort keys under study: with and without `column`, with a direction that
\* is absent, ASC or DESC in some letter case, another string, or not a string
OrderItems ==
    {OrderSpec(c, d) : c \in {VStr(<<"A">>), VAbsent},
                       d \in {VAbsent, VNone, VInt(1), VStr(<<"d", "e", "s", "c">>),
                              VStr(<<"A", "s", "c">>), VStr(<<"D", "E", "S", "C">>),
                              VStr(<<"x">>), VStr(<<>>)}}
FiltersValues == {NoList, NodeList(<<>>), NodeList(<<NodeA>>), NodeList(<<NodeSkipped>>)}

\* configurations varying every section, with few filters
SectionConfigs ==
    [table : Tables, columns : ColumnsValues, filters : FiltersValues,
     order_by : OrderBys, limit : Limits]

\* configurations varying the filters
FilterConfigs ==
    [table : {VStr(<<"T">>)}, columns : {VList(<<>>), VList(<<VStr(<<"A">>)>>)},
     filters : {NodeList(x) : x \in FilterLists}, order_by : {NoList}, limit : {VAbsent}]

\* configurations varying the sort keys
OrderConfigs ==
    [table : {VStr(<<"T">>)}, columns : {VList(<<VStr(<<"A">>)>>)},
     filters : {NoList}, order_by : {NodeList(x) : x \in SeqsUpTo(OrderItems, MaxOrder)},
     limit : {VAbsent}]

\* the configuration the parser inputs go with
DefaultConfig ==
    [table |-> VStr(<<"T">>), columns |-> VList(<<>>), filters |-> NoList,
     order_by |-> NoList, limit |-> VAbsent]

HeaderLines == {<<"A", ",", "B">>, <<"A">>, <<"A", ",", "A">>, <<>>}
DataLines ==
    {<<"1", ",", "2">>, <<"3">>, <<"1", ",", "2", ",", "3">>, <<>>, <<",">>,
     <<"1", ",", "\"", "x", ",", "y", "\"">>, <<"\"", "a", "\"", "\"", "b", "\"", ",", "2">>,
     <<"3", ",", "\"", "x">>, <<"3", "\r", "4">>, <<"1", ",", "2", "\r">>, <<"\r", "1">>}

\* the texts handed to the parser: nothing, or a header line and at most MaxRows
\* data lines, with or without a line break after the last line
Texts ==
    {<<>>} \cup
    {Join(<<h>> \o ls, <<"\n">>) \o e :
        h \in HeaderLines, ls \in SeqsUpTo(DataLines, MaxRows), e \in {<<>>, <<"\n">>}}

\* ------------------------------------------------------------- the program
Init ==
    /\ \/ config \in SectionConfigs \cup FilterConfigs \cup OrderConfigs /\ csv_data_string = <<>>
       \/ config = DefaultConfig /\ csv_data_string \in Texts
    /\ pc = "new"
    /\ sql = <<>>
    /\ err = ""
    /\ builds = 0
    /\ results = <<>>
    /\ parsed = FALSE
    /\ stage = "idle"
    /\ db_connection = FALSE
    /\ closes = 0
    /\ raised = ""
    /\ ran = <<>>

\* QueryBuilder(query_config)
QueryBuilderInit ==
    /\ stage = "idle"
    /\ pc = "new"
    /\ LET e == ValidateConfig(config)
       IN /\ err' = e
          /\ pc' = IF e = "" THEN "ready" ELSE "rejected"
    /\ UNCHANGED <<config, sql, builds, parserVars, mainVars>>

\* build_select_query writing the default projection back into self.config
\* (the assignment the comment of query_builder.py line 39 suggests)
BuildSelectQueryStoringColumns ==
    /\ stage = "idle"
    /\ pc \in {"ready", "built", "failed"}
    /\ builds < MaxBuilds
    /\ LET r == BuildSelectQueryResult(config)
       IN /\ err' = r.err
          /\ sql' = r.query
          /\ pc' = IF r.err = "" THEN "built" ELSE "failed"
    /\ builds' = builds + 1
    /\ config' = IF config.columns.l = <<>>
                 THEN [config EXCEPT !.columns = VList(<<VStr(<<"*">>)>>)] ELSE config
    /\ UNCHANGED <<parserVars, mainVars>>

\* query_builder.build_select_query(), on a builder that may have built before
BuildSelectQuery ==
    /\ stage = "idle"
    /\ pc \in {"ready", "built", "failed"}
    /\ builds < MaxBuilds
    /\ LET r == BuildSelectQueryResult(config)
       IN /\ err' = r.err
          /\ sql' = r.query
          /\ pc' = IF r.err = "" THEN "built" ELSE "failed"
    /\ builds' = builds + 1
    /\ UNCHANGED <<config, parserVars, mainVars>>

\* DataProcessor.process_csv_output_to_dict(csv_data_string)
ProcessCsv ==
    /\ stage = "idle"
    /\ ~parsed
    /\ results' = ProcessCsvOutputToDict(csv_data_string)
    /\ parsed' = TRUE
    /\ UNCHANGED <<csv_data_string, builderVars, mainVars>>

Next == QueryBuilderInit \/ BuildSelectQuery \/ ProcessCsv

Spec == Init /\ [][Next]_vars

\* ------------------------------------------------------------- main
\* the configurations main loads
MainConfigs ==
    {DefaultConfig,
     [DefaultConfig EXCEPT !.table = VStr(<<>>)],
     [DefaultConfig EXCEPT !.filters = NodeList(<<NodeA, Group(<<"O", "R">>, <<NodeB, NodeC>>)>>)],
     [DefaultConfig EXCEPT !.order_by = NodeList(<<OrderSpec(VStr(<<"A">>), VNone)>>)],
     [DefaultConfig EXCEPT !.filters = NodeList(<<NodeA>>), !.limit = VInt(5)]}

RECURSIVE LStrip(_)
LStrip(x) == IF x # <<>> /\ Head(x) \in {"\n", "\r", " "} THEN LStrip(Tail(x)) ELSE x

RECURSIVE RStrip(_)
RStrip(x) ==
    IF x # <<>> /\ x[Len(x)] \in {"\n", "\r", " "} THEN RStrip(SubSeq(x, 1, Len(x) - 1)) ELSE x

\* str.strip()
Strip(x) == RStrip(LStrip(x))

InitMain ==
    /\ config \in MainConfigs
    /\ csv_data_string = <<>>
    /\ pc = "new"
    /\ sql = <<>>
    /\ err = ""
    /\ builds = 0
    /\ results = <<>>
    /\ parsed = FALSE
    /\ stage = "load"
    /\ db_connection = FALSE
    /\ closes = 0
    /\ raised = ""
    /\ ran = <<>>

\* 1. query_config = load_query_config(json_file_path): it returns, or raises
\* FileNotFoundError, json.JSONDecodeError or another exception of open/read
MainLoadConfig ==
    /\ stage = "load"
    /\ \E outcome \in {"", "FileNotFoundError", "JSONDecodeError", "OSError"} :
         /\ raised' = outcome
         /\ stage' = IF outcome = "" THEN "construct" ELSE "except"
    /\ ran' = Append(ran, "load")
    /\ UNCHANGED <<builderVars, parserVars, db_connection, closes>>

\* 2. db_connection = DatabaseConnection(...): the constructor only assigns
MainConstruct ==
    /\ stage = "construct"
    /\ db_connection' = TRUE
    /\ stage' = "connect"
    /\ ran' = Append(ran, "construct")
    /\ UNCHANGED <<builderVars, parserVars, closes, raised>>

\* db_connection.connect(): it returns, or raises again what subprocess.run raised
MainConnect ==
    /\ stage = "connect"
    /\ \E outcome \in {"", "FileNotFoundError", "CalledProcessError", "OSError"} :
         /\ raised' = outcome
         /\ stage' = IF outcome = "" THEN "build" ELSE "except"
    /\ ran' = Append(ran, "connect")
    /\ UNCHANGED <<builderVars, parserVars, db_connection, closes>>

\* 3. QueryBuilder(query_config) and query_builder.build_select_query()
MainBuild ==
    /\ stage = "build"
    /\ LET e == ValidateConfig(config)
           r == BuildSelectQueryResult(config)
       IN IF e # ""
          THEN /\ pc' = "rejected"
               /\ err' = e
               /\ raised' = e
               /\ stage' = "except"
               /\ UNCHANGED <<sql, builds>>
          ELSE /\ pc' = IF r.err = "" THEN "built" ELSE "failed"
               /\ err' = r.err
               /\ sql' = r.query
               /\ builds' = builds + 1
               /\ raised' = r.err
               /\ stage' = IF r.err = "" THEN "execute" ELSE "except"
    /\ ran' = Append(ran, "build")
    /\ UNCHANGED <<config, parserVars, db_connection, closes>>

\* 4. raw_csv_output = db_connection.execute_query(sql_query_string): it returns
\* process.stdout.strip(), or raises ValueError (sqlplus failed),
\* FileNotFoundError or another exception; an empty output skips the parser
MainExecute ==
    /\ stage = "execute"
    /\ \/ \E stdout \in Texts :
            /\ csv_data_string' = Strip(stdout)
            /\ raised' = ""
            /\ stage' = IF Strip(stdout) # <<>> THEN "parse" ELSE "finally"
       \/ \E outcome \in {"ValueError", "FileNotFoundError", "OSError"} :
            /\ raised' = outcome
            /\ stage' = "except"
            /\ UNCHANGED csv_data_string
    /\ ran' = Append(ran, "execute")
    /\ UNCHANGED <<builderVars, results, parsed, db_connection, closes>>

\* 5. results_as_dict = DataProcessor.process_csv_output_to_dict(raw_csv_output)
MainParse ==
    /\ stage = "parse"
    /\ results' = ProcessCsvOutputToDict(csv_data_string)
    /\ parsed' = TRUE
    /\ stage' = "finally"
    /\ ran' = Append(ran, "parse")
    /\ UNCHANGED <<builderVars, csv_data_string, db_connection, closes, raised>>

\* the except clauses: FileNotFoundError, json.JSONDecodeError and ValueError
\* are handled; for any other exception the clause `except
\* subprocess.CalledProcessError` is evaluated, and main.py does not import
\* subprocess, so NameError is raised in its place
MainExcept ==
    /\ stage = "except"
    /\ raised' = IF raised \in {"FileNotFoundError", "JSONDecodeError", "ValueError"}
                 THEN "" ELSE "NameError"
    /\ stage' = "finally"
    /\ UNCHANGED <<builderVars, parserVars, db_connection, closes, ran>>

\* a cleanup that runs only when no exception is in flight
MainFinallyOnSuccess ==
    /\ stage = "finally"
    /\ closes' = IF db_connection /\ raised = "" THEN closes + 1 ELSE closes
    /\ stage' = "end"
    /\ UNCHANGED <<builderVars, parserVars, db_connection, raised, ran>>

\* finally: if db_connection: db_connection.close(); then main ends, returning
\* or with the exception in flight
MainFinally ==
    /\ stage = "finally"
    /\ closes' = IF db_connection THEN closes + 1 ELSE closes
    /\ stage' = "end"
    /\ UNCHANGED <<builderVars, parserVars, db_connection, raised, ran>>

NextMain ==
    \/ MainLoadConfig
    \/ MainConstruct
    \/ MainConnect
    \/ MainBuild
    \/ MainExecute
    \/ MainParse
    \/ MainExcept
    \/ MainFinally

SpecMain == InitMain /\ [][NextMain]_vars

\* ------------------------------------------------------------- properties
\* build_select_query has returned or raised
BuildDone == pc \in {"built", "failed"}

\* the `filters` list of the configuration
FilterSeq == IF config.filters.t = "absent" THEN <<>> ELSE config.filters.l

\* a Comparison whose operator is `name`, in any letter case
HasOperator(f, name) ==
    f.column.t = "str" /\ f.operator.t = "str" /\ Upper(f.operator.s) = name

\* the configuration without the filters that satisfy Drop
WithoutFilters(Drop(_)) ==
    [config EXCEPT !.filters = NodeList(SelectSeq(FilterSeq, LAMBDA f : ~Drop(f)))]

\* C1: once the constructor has run on a configuration whose `table` is missing
\* or empty, or whose `columns` is missing or not a list, a ValueError has
\* reached the caller and there is no SQL string.
ConfigErrorReachesCaller ==
    (/\ pc # "new"
     /\ \/ config.table.t \in {"absent", "none"}
        \/ config.table.t = "str" /\ config.table.s = <<>>
        \/ config.columns.t # "list")
    => (pc = "rejected" /\ err = "ValueError" /\ sql = <<>>)

ConfigErrorWitness ==
    /\ pc = "rejected"
    /\ config.table = VStr(<<>>)
    /\ config.columns = VList(<<VStr(<<"A">>)>>)
    /\ err = "ValueError"

\* a Comparison with operator IN whose value is not a non-empty list
BadIn(f) == HasOperator(f, <<"I", "N">>) /\ (f.value.t # "list" \/ f.value.l = <<>>)

BadBetween(f) ==
    HasOperator(f, <<"B", "E", "T", "W", "E", "E", "N">>)
    /\ (f.value.t # "list" \/ Len(f.value.l) # 2)

RECURSIVE Split(_, _)
\* the pieces of x between the occurrences of the atom sep
Split(x, sep) ==
    IF x = <<>> THEN << <<>> >>
    ELSE LET rest == Split(Tail(x), sep)
         IN IF Head(x) = sep THEN << <<>> >> \o rest
            ELSE << <<Head(x)>> \o Head(rest) >> \o Tail(rest)

\* the lines of the returned query
Lines == Split(sql, "\n")

\* a Group node: it has a `conditions` key
IsGroup(f) == f.conditions.t = "list"

\* a node that is neither a Comparison nor a Group
Malformed(f) == f.conditions.t = "absent" /\ (f.column.t = "absent" \/ f.operator.t = "absent")

Operands(f) ==
    IF HasOperator(f, <<"I", "N">>) THEN (IF BadIn(f) THEN <<>> ELSE f.value.l)
    ELSE IF HasOperator(f, <<"B", "E", "T", "W", "E", "E", "N">>)
    THEN (IF BadBetween(f) THEN <<>> ELSE f.value.l)
    ELSE IF HasOperator(f, <<"I", "S", " ", "N", "U", "L", "L">>)
            \/ HasOperator(f, <<"I", "S", " ", "N", "O", "T", " ", "N", "U", "L", "L">>)
    THEN <<>>
    ELSE <<Get(f.value)>>

\* the string values in value positions, in the order of the filters
StringOperands ==
    LET all == Join([i \in 1..Len(FilterSeq) |-> Operands(FilterSeq[i])], <<>>)
        strs == SelectSeq(all, LAMBDA v : v.t = "str")
    IN [i \in 1..Len(strs) |-> strs[i].s]

RECURSIVE ScanLiterals(_, _, _, _)
\* reads x as SQL text: a quote opens a literal, a doubled quote inside it is one
\* quote of its body, a single quote closes it; lits are the bodies read
ScanLiterals(x, inside, body, lits) ==
    IF x = <<>> THEN [closed |-> ~inside, lits |-> lits]
    ELSE IF ~inside
    THEN ScanLiterals(Tail(x), Head(x) = "'", <<>>, lits)
    ELSE IF Head(x) # "'" THEN ScanLiterals(Tail(x), TRUE, Append(body, Head(x)), lits)
    ELSE IF Len(x) >= 2 /\ x[2] = "'"
    THEN ScanLiterals(Tail(Tail(x)), TRUE, Append(body, "'"), lits)
    ELSE ScanLiterals(Tail(x), FALSE, <<>>, Append(lits, body))

RECURSIVE QuoteCount(_)
QuoteCount(x) ==
    IF x = <<>> THEN 0 ELSE (IF Head(x) = "'" THEN 1 ELSE 0) + QuoteCount(Tail(x))

RECURSIVE QuoteSum(_)
QuoteSum(xs) == IF xs = <<>> THEN 0 ELSE 2 + 2 * QuoteCount(Head(xs)) + QuoteSum(Tail(xs))

\* C6: in a returned query every string value in a value position is a literal
\* in single quotes whose internal quotes are doubled: read back as SQL, the
\* literals of the query are exactly the string values, none ends early, and
\* the query holds two quotes per literal plus two per quote of its value.
StringLiteralsEscaped ==
    pc = "built" =>
      LET r == ScanLiterals(sql, FALSE, <<>>, <<>>)
      IN /\ r.closed
         /\ r.lits = StringOperands
         /\ QuoteCount(sql) = QuoteSum(StringOperands)

StringLiteralsWitness ==
    /\ pc = "built"
    /\ FilterSeq = <<Comparison(ColC, OpIn, VList(<<VStr(<<"a", "'">>), VInt(7)>>)),
                     Comparison(ColD, OpIn, VList(<<>>))>>
    /\ Lines[3] = <<"WHERE ", "C", " IN (", "'", "a", "'", "'", "'", ", ", "7", ")">>

\* the literal C7 states for a value
StatedLiteral(v) ==
    CASE v.t = "none" -> <<"NULL">>
      [] v.t = "bool" -> IF v.n = 1 THEN <<"1">> ELSE <<"0">>
      [] v.t = "int" -> IntToStr(v.n)
      [] v.t = "str" -> <<"'">> \o Replace(v.s) \o <<"'">>

\* C7 as stated: the query of a single Comparison holds NULL for a null or
\* absent value, 1 or 0 for a boolean and the decimal text of a number, in the
\* scalar position, in every IN item and in both BETWEEN bounds.
NullAndBooleanLiterals ==
    (pc = "built" /\ Len(FilterSeq) = 1 /\ Operands(FilterSeq[1]) # <<>>) =>
      LET f == FilterSeq[1]
          ops == Operands(f)
          lits == [i \in 1..Len(ops) |-> StatedLiteral(ops[i])]
      IN /\ Len(Lines) >= 3
         /\ Lines[3] =
              <<"WHERE ">> \o f.column.s \o
              (IF HasOperator(f, <<"I", "N">>) THEN <<" IN (">> \o Join(lits, <<", ">>) \o <<")">>
               ELSE IF HasOperator(f, <<"B", "E", "T", "W", "E", "E", "N">>)
               THEN <<" BETWEEN ">> \o lits[1] \o <<" AND ">> \o lits[2]
               ELSE <<" ">> \o Upper(f.operator.s) \o <<" ">> \o lits[1])

\* 1 for TRUE, 0 for FALSE
Count(b) == IF b THEN 1 ELSE 0

\* some filter contributes a fragment to the WHERE clause
HasFragments == \E i \in 1..Len(FilterSeq) : ~BadIn(FilterSeq[i]) /\ ~BadBetween(FilterSeq[i])

\* `limit` is absent or a positive integer
ValidLimit == config.limit.t \in {"absent", "none"} \/ (config.limit.t = "int" /\ config.limit.n > 0)

\* C8: the query returned for a valid configuration is its clauses, one per
\* line, in the order SELECT, FROM, WHERE, ORDER BY, row cap; SELECT and FROM
\* are there, each other clause is there exactly when its source is not empty,
\* and no line is empty.
ClausesInOrder ==
    (pc = "built" /\ ValidLimit) =>
      LET hasWhere == HasFragments
          hasOrder == config.order_by.l # <<>>
          hasLimit == config.limit.t = "int"
          n == 2 + Count(hasWhere) + Count(hasOrder) + Count(hasLimit)
      IN /\ Len(Lines) = n
         /\ \A i \in 1..n : Lines[i] # <<>>
         /\ Head(Lines[1]) = "SELECT "
         /\ Head(Lines[2]) = "FROM "
         /\ hasWhere => Head(Lines[3]) = "WHERE "
         /\ hasOrder => Head(Lines[3 + Count(hasWhere)]) = "ORDER BY "
         /\ hasLimit => Head(Lines[n]) = "FETCH NEXT "

ClausesInOrderWitness ==
    /\ pc = "built"
    /\ config.limit = VInt(5)
    /\ sql = <<"SELECT ", "I", "D", ", ", "A", "\n", "FROM ", "T", "\n",
               "WHERE ", "D", " ", ">", "=", " ", "8", "0", "0", "0", "\n",
               "ORDER BY ", "A", " ", "D", "E", "S", "C", "\n",
               "FETCH NEXT ", "5", " ROWS ONLY">>

\* C9 as stated: the last line of a returned query is `FETCH NEXT <n> ROWS ONLY`
\* exactly when `limit` is a positive integer n; a boolean, a numeric string,
\* zero, a negative number or no limit give no such line.
RowCapIffPositiveInteger ==
    pc = "built" =>
      LET positive == config.limit.t = "int" /\ config.limit.n > 0
          last == Lines[Len(Lines)]
      IN /\ (Head(last) = "FETCH NEXT ") <=> positive
         /\ positive => last = <<"FETCH NEXT ">> \o IntToStr(config.limit.n) \o <<" ROWS ONLY">>

\* C10: the first line of a returned query is `SELECT *` when `columns` is
\* empty, and otherwise SELECT followed by the column identifiers as given,
\* in the order given, separated by `, `.
SelectClauseOfColumns ==
    pc = "built" =>
      LET columns == config.columns.l
          body == Tail(Lines[1])
      IN /\ Head(Lines[1]) = "SELECT "
         /\ IF columns = <<>> THEN body = <<"*">>
            ELSE Split(body, ", ") = [i \in 1..Len(columns) |-> columns[i].s]

SelectClauseWitness ==
    /\ pc = "built"
    /\ config.columns = VList(<<VStr(<<"I", "D">>), VStr(<<"A">>)>>)
    /\ Lines[1] = <<"SELECT ", "I", "D", ", ", "A">>

\* the lines of the text handed to the parser, without the piece after a last line break
TextLines ==
    LET pieces == Split(csv_data_string, "\n")
    IN IF pieces[Len(pieces)] = <<>> THEN SubSeq(pieces, 1, Len(pieces) - 1) ELSE pieces

\* the data lines of the text that are not blank
NonBlankDataLines == SelectSeq(Tail(TextLines), LAMBDA line : line # <<>>)

\* the field names of the header line
HeaderNames == LET names == Split(Head(TextLines), ",") IN {names[i] : i \in 1..Len(names)}

\* a carriage return outside quotes that no line break follows: csv.reader
\* raises csv.Error on the character after it
MalformedText ==
    \E i \in 1..(Len(csv_data_string) - 1) :
        /\ csv_data_string[i] = "\r"
        /\ csv_data_string[i + 1] \notin {"\n", "\r"}
        /\ Cardinality({j \in 1..i : csv_data_string[j] = "\""}) % 2 = 0

\* C11 as stated: for a text with a header line the parser returns one record
\* per data line, and in every record every key is a field name of the header
\* and every value is a string, also for lines with fewer or more fields than
\* the header.
RecordsOfHeaderKeysAndStrings ==
    (parsed /\ TextLines # <<>> /\ Head(TextLines) # <<>> /\ ~MalformedText) =>
      /\ Len(results) = Len(NonBlankDataLines)
      /\ \A i \in 1..Len(results) : \A j \in 1..Len(results[i]) :
           /\ results[i][j].k.t = "str"
           /\ results[i][j].k.s \in HeaderNames
           /\ results[i][j].v.t = "str"

StatedDirection(item) ==
    IF item.direction.t = "str"
       /\ Upper(item.direction.s) \in {<<"A", "S", "C">>, <<"D", "E", "S", "C">>}
    THEN Upper(item.direction.s)
    ELSE <<"A", "S", "C">>

\* C14 as stated: with every sort key naming its column, build returns and the
\* line after FROM and WHERE is ORDER BY followed by the keys `<column>
\* <direction>` in the order given, separated by `, `; the direction is ASC
\* when absent, the given ASC or DESC in upper case, and ASC for anything else.
SortKeysDefaultToAsc ==
    LET items == config.order_by.l
    IN (BuildDone /\ items # <<>> /\ \A i \in 1..Len(items) : items[i].column.t = "str") =>
         /\ pc = "built"
         /\ LET line == Lines[3 + Count(HasFragments)]
            IN /\ Head(line) = "ORDER BY "
               /\ Split(Tail(line), ", ") =
                    [i \in 1..Len(items) |->
                        items[i].column.s \o <<" ">> \o StatedDirection(items[i])]

\* the stages of main in the order of the source
StageOrder == <<"load", "construct", "connect", "build", "execute", "parse">>

\* main has run the stage
Ran(name) == \E i \in 1..Len(ran) : ran[i] = name

\* C15: the stages main has run are the first stages of load, construct,
\* connect, build, execute, parse, in that order; close() is not called before
\* the end of main and, when main has ended, has been called once if the
\* connection was constructed and never if it was not, whatever any stage
\* raised; the parser has run only after an execute that returned a text that
\* is not empty.
MainClosesOnce ==
    /\ Len(ran) <= Len(StageOrder) /\ ran = SubSeq(StageOrder, 1, Len(ran))
    /\ stage # "end" => closes = 0
    /\ stage = "end" => closes = IF Ran("construct") THEN 1 ELSE 0
    /\ Ran("construct") <=> db_connection
    /\ Ran("parse") => (Ran("execute") /\ csv_data_string # <<>> /\ parsed)
    /\ parsed => Ran("parse")

MainClosesOnceWitness ==
    /\ stage = "end"
    /\ ran = <<"load", "construct", "connect", "build">>
    /\ err = "KeyError"
    /\ raised = "NameError"
    /\ closes = 1

====
